---- MODULE Spec2Model ----
(***************************************************************************)
(* The chat line parser of chatbot/src/connect/mod.rs: EventContent::new   *)
(* (a character-indexed state machine), Command::new and parse_tags.       *)
(*                                                                         *)
(* A string is a sequence of one-character strings.  Rust indices are      *)
(* 0-based and half open: message[a..b] is Slice(message, a, b).  Every    *)
(* character of the model is one byte wide, so char_indices() yields       *)
(* 0, 1, 2, ...                                                            *)
(*                                                                         *)
(* log records each finished call: the line and what the call returned.    *)
(***************************************************************************)
EXTENDS Integers, Sequences, FiniteSets, TLC

VARIABLES message, i, state, user_name, marker, tags_map, result, pc, log

vars == <<message, i, state, user_name, marker, tags_map, result, pc, log>>

(***************************************************************************)
(* Bounds of the input space.                                              *)
(***************************************************************************)
\* the largest number of argument tokens after a command name
MaxArgs == 2
\* the largest length of an unstructured line
MaxRaw == 3

(***************************************************************************)
(* String helpers.                                                         *)
(***************************************************************************)
\* message[a..b]
Slice(s, a, b) == SubSeq(s, a + 1, b)

\* message[a..]
SliceFrom(s, a) == SubSeq(s, a + 1, Len(s))

\* char::is_whitespace, over the characters of the model
WhiteSpace == {" ", "\n", "\t", "\r"}

\* str::trim_start
RECURSIVE trim_start(_)
trim_start(s) ==
    IF s # <<>> /\ Head(s) \in WhiteSpace THEN trim_start(Tail(s)) ELSE s

\* str::trim_end
RECURSIVE trim_end(_)
trim_end(s) ==
    IF s # <<>> /\ s[Len(s)] \in WhiteSpace
    THEN trim_end(SubSeq(s, 1, Len(s) - 1))
    ELSE s

\* str::trim with the trailing side forgotten
trim_leading_only(s) == trim_start(s)

\* str::trim, as called on the body span (mod.rs:172, mod.rs:177)
trim(s) == trim_end(trim_start(s))

\* str::split(sep): the pieces between occurrences of sep; never empty
RECURSIVE split(_, _)
split(s, sep) ==
    IF \A k \in 1..Len(s) : s[k] # sep
    THEN <<s>>
    ELSE LET k == CHOOSE k \in 1..Len(s) :
                      s[k] = sep /\ \A j \in 1..(k - 1) : s[j] # sep
         IN  <<SubSeq(s, 1, k - 1)>> \o split(SubSeq(s, k + 1, Len(s)), sep)

\* str::starts_with(char)
starts_with(s, c) == s # <<>> /\ Head(s) = c

(***************************************************************************)
(* Events.                                                                 *)
(***************************************************************************)
\* Option::None
None == [kind |-> "None"]

\* EventContent::TextMessage(TextMessage::new(text, user_name))
TextMessage(text, user) ==
    [kind |-> "TextMessage", text |-> text, user_name |-> user]

\* EventContent::Command(Command {..})
Command(type, opts, user) ==
    [kind |-> "Command", commmand_type |-> type, options |-> opts,
     user_name |-> user]

\* EventContent::Join(user_name)
Join(user) == [kind |-> "Join", user_name |-> user]

\* EventContent::Part(user_name)
Part(user) == [kind |-> "Part", user_name |-> user]

(***************************************************************************)
(* Command::new                                                            *)
(***************************************************************************)
help == <<"h", "e", "l", "p">>
info == <<"i", "n", "f", "o">>
slap == <<"s", "l", "a", "p">>

\* the match on the command name with the first letter's case ignored
CommandTypeOfAnyCase(name) ==
    IF name \in {<<"h", "e", "l", "p">>, <<"H", "e", "l", "p">>} THEN "Help"
    ELSE IF name \in {<<"i", "n", "f", "o">>, <<"I", "n", "f", "o">>} THEN "Info"
    ELSE IF name \in {<<"s", "l", "a", "p">>, <<"S", "l", "a", "p">>} THEN "Slap"
    ELSE "None"

\* the match on the command name: the CommandType, or "None" for the `_` arm
CommandTypeOf(name) ==
    IF name = help THEN "Help"
    ELSE IF name = info THEN "Info"
    ELSE IF name = slap THEN "Slap"
    ELSE "None"

\* words.map(String::from).collect(), after words.next() took the first word
CollectOptions(words) == Tail(words)

Command_new(text, user) ==
    IF ~starts_with(text, "!")
    THEN None
    ELSE LET words == split(text, " ")
             name  == SubSeq(Head(words), 2, Len(Head(words)))
             type  == CommandTypeOf(name)
         IN  IF type = "None"
             THEN None
             ELSE Command(type, CollectOptions(words), user)

(***************************************************************************)
(* parse_tags                                                              *)
(***************************************************************************)
\* the closure: (first piece, second piece) of the segment split on '='
KeyVal(key_val_pair) ==
    LET key_val_split == split(key_val_pair, "=")
    IN  <<key_val_split[1],
          IF Len(key_val_split) >= 2 THEN key_val_split[2] ELSE <<>> >>

\* collect() into a HashMap: later pairs overwrite earlier ones
RECURSIVE CollectMap(_, _)
CollectMap(pairs, map) ==
    IF pairs = <<>>
    THEN map
    ELSE CollectMap(Tail(pairs), (Head(pairs)[1] :> Head(pairs)[2]) @@ map)

\* parse_tags keeping the first pair of a key instead of the last
parse_tags_first_wins(tags_string) ==
    LET segs == split(tags_string, ";")
    IN  CollectMap([k \in 1..Len(segs) |-> KeyVal(segs[Len(segs) + 1 - k])],
                   <<>>)

parse_tags(tags_string) ==
    LET segs == split(tags_string, ";")
    IN  CollectMap([k \in 1..Len(segs) |-> KeyVal(segs[k])], <<>>)

(***************************************************************************)
(* EventContent::new: the arms of the match on the parsing state.          *)
(***************************************************************************)
PRIVMSG == <<"P", "R", "I", "V", "M", "S", "G">>
JOIN == <<"J", "O", "I", "N">>
PART == <<"P", "A", "R", "T">>

ParsingState ==
    {"Start", "Tags", "UserName", "AdditionalUserInfo", "MessageToken",
     "Channel", "MessageBody"}

\* the match on the first character with the `_` arm falling into UserName
StartArmNoReject(c) ==
    IF c = "@" THEN "Tags" ELSE "UserName"

\* the match on the first character: the next state, or "None" for the `_` arm
StartArm(codepoint) ==
    IF codepoint = "@" THEN "Tags"
    ELSE IF codepoint = ":" THEN "UserName"
    ELSE "None"

\* the match on the verb token with the `_` arm going on to the channel
TokenArmNoReject(token) ==
    IF token = <<"J", "O", "I", "N">> THEN "Join"
    ELSE IF token = <<"P", "A", "R", "T">> THEN "Part"
    ELSE "Channel"

\* the match on the verb token: the arm taken
TokenArm(token) ==
    IF token = PRIVMSG THEN "Channel"
    ELSE IF token = JOIN THEN "Join"
    ELSE IF token = PART THEN "Part"
    ELSE "None"

\* the character the iterator yields at index i
codepoint == message[i + 1]

\* the loop body runs on the next character with the parser in state s
InArm(s) == pc = "loop" /\ i < Len(message) /\ state = s

\* `return r` out of the loop
Return(r) ==
    /\ result' = r
    /\ pc' = "done"
    /\ i' = i + 1
    /\ log' = Append(log, [line |-> message, outcome |-> r])
    /\ UNCHANGED <<message, state, user_name, marker, tags_map>>

\* the end of an arm with the iterator left where it was
ContinueWithoutAdvance == UNCHANGED <<i, message, result, pc, log>>

\* the arm ends and the loop goes on to the next character
Continue == i' = i + 1 /\ UNCHANGED <<message, result, pc, log>>

Start ==
    /\ InArm("Start")
    /\ IF StartArm(codepoint) = "None"
       THEN Return(None)
       ELSE /\ state' = StartArm(codepoint)
            /\ Continue
            /\ UNCHANGED <<user_name, marker, tags_map>>

\* the Tags arm handing the character after the tags back to the Start arm
TagsBackToStart ==
    /\ InArm("Tags")
    /\ IF codepoint = " "
       THEN /\ state' = "Start"
            /\ tags_map' = parse_tags(Slice(message, 1, i))
       ELSE UNCHANGED <<state, tags_map>>
    /\ Continue
    /\ UNCHANGED <<user_name, marker>>

Tags ==
    /\ InArm("Tags")
    /\ IF codepoint = " "
       THEN /\ state' = "UserName"
            /\ tags_map' = parse_tags(Slice(message, 1, i))
       ELSE UNCHANGED <<state, tags_map>>
    /\ Continue
    /\ UNCHANGED <<user_name, marker>>

\* the UserName arm with the space skipped like any other character
UserNameSkippingSpace ==
    /\ InArm("UserName")
    /\ IF codepoint = "!"
       THEN /\ user_name' = Slice(message, 1, i)
            /\ state' = "AdditionalUserInfo"
       ELSE UNCHANGED <<user_name, state>>
    /\ Continue
    /\ UNCHANGED <<marker, tags_map>>

UserName ==
    /\ InArm("UserName")
    /\ IF codepoint = " "
       THEN Return(None)
       ELSE /\ IF codepoint = "!"
               THEN /\ user_name' = Slice(message, 1, i)
                    /\ state' = "AdditionalUserInfo"
               ELSE UNCHANGED <<user_name, state>>
            /\ Continue
            /\ UNCHANGED <<marker, tags_map>>

\* the AdditionalUserInfo arm with the marker set one character too far
AdditionalUserInfoMarkerTooFar ==
    /\ InArm("AdditionalUserInfo")
    /\ IF codepoint = " "
       THEN /\ marker' = i + 2
            /\ state' = "MessageToken"
       ELSE UNCHANGED <<marker, state>>
    /\ Continue
    /\ UNCHANGED <<user_name, tags_map>>

AdditionalUserInfo ==
    /\ InArm("AdditionalUserInfo")
    /\ IF codepoint = " "
       THEN /\ marker' = i + 1
            /\ state' = "MessageToken"
       ELSE UNCHANGED <<marker, state>>
    /\ Continue
    /\ UNCHANGED <<user_name, tags_map>>

MessageToken ==
    /\ InArm("MessageToken")
    /\ IF codepoint = " "
       THEN LET token == Slice(message, marker, i)
                arm   == TokenArm(token)
            IN  IF arm = "Channel"
                THEN /\ state' = "Channel"
                     /\ Continue
                     /\ UNCHANGED <<user_name, marker, tags_map>>
                ELSE IF arm = "Join" THEN Return(Join(user_name))
                ELSE IF arm = "Part" THEN Return(Part(user_name))
                ELSE Return(None)
       ELSE /\ Continue
            /\ UNCHANGED <<state, user_name, marker, tags_map>>

Channel ==
    /\ InArm("Channel")
    /\ IF codepoint = ":"
       THEN state' = "MessageBody"
       ELSE UNCHANGED state
    /\ Continue
    /\ UNCHANGED <<user_name, marker, tags_map>>

MessageBody ==
    /\ InArm("MessageBody")
    /\ IF codepoint = "!"
       THEN Return(Command_new(trim(SliceFrom(message, i)), user_name))
       ELSE Return(TextMessage(trim(SliceFrom(message, i)), user_name))

\* the end of the loop with the pending verb token dispatched as on a space
ExhaustedDispatchingToken ==
    /\ pc = "loop"
    /\ i >= Len(message)
    /\ result' = IF state = "MessageToken"
                      /\ TokenArm(Slice(message, marker, i)) = "Join"
                 THEN Join(user_name)
                 ELSE IF state = "MessageToken"
                         /\ TokenArm(Slice(message, marker, i)) = "Part"
                 THEN Part(user_name)
                 ELSE None
    /\ pc' = "done"
    /\ log' = Append(log, [line |-> message, outcome |-> result'])
    /\ UNCHANGED <<message, i, state, user_name, marker, tags_map>>

\* the iterator is exhausted: the loop ends and the function returns None
Exhausted ==
    /\ pc = "loop"
    /\ i >= Len(message)
    /\ result' = None
    /\ pc' = "done"
    /\ log' = Append(log, [line |-> message, outcome |-> None])
    /\ UNCHANGED <<message, i, state, user_name, marker, tags_map>>

(***************************************************************************)
(* The lines handed to EventContent::new.                                  *)
(***************************************************************************)
\* the concatenation of a sequence of strings, each preceded by a space
RECURSIVE SpacedConcat(_)
SpacedConcat(tokens) ==
    IF tokens = <<>>
    THEN <<>>
    ELSE <<" ">> \o Head(tokens) \o SpacedConcat(Tail(tokens))

\* the sequences over S of length at most n
SeqsUpTo(S, n) == UNION {[1..k -> S] : k \in 0..n}

\* the text of a tags segment
TagStrings ==
    {<<>>,
     <<"k", "=", "v">>,
     <<"k", "=", ";", "k", "=", "w">>,
     <<"a", "=", "b", "=", "c">>}

\* nothing, or '@' tags ' '
TagParts == {<<>>} \cup {<<"@">> \o t \o <<" ">> : t \in TagStrings}

Authors == {<<>>, <<"a">>, <<"a", "b">>, <<"a", " ", "b">>}

UserInfos == {<<>>, <<"u">>}

\* ':' author '!' userinfo ' ', and prefixes that lack a part of it
Prefixes ==
    {<<":">> \o a \o <<"!">> \o u \o <<" ">> : a \in Authors, u \in UserInfos}
    \cup {<<":", "a", " ">>, <<"a", "!", "u", " ">>, <<":", "a", "!", "u">>}

Verbs ==
    {PRIVMSG, JOIN, PART, <<"P", "I", "N", "G">>, <<>>,
     <<"J", "O", "I", "N", "S">>, <<"j", "o", "i", "n">>}

\* what follows the verb
Tails ==
    {<<>>,
     <<" ">>,
     <<" ", "#", "c">>,
     <<" ", "#", "c", " ">>,
     <<" ", "#", "c", " ", ":", "x">>,
     <<" ", "#", "c", " ", ":", "!", "h", "e", "l", "p">>,
     <<" ", ":", "x", " ", "y", "\n">>}

\* lines that vary the tags, the prefix, the verb and what follows it
PrefixLines ==
    {t \o p \o v \o r : t \in TagParts, p \in Prefixes, v \in Verbs, r \in Tails}

CommandNames ==
    {<<>>, help, info, slap, <<"H", "e", "l", "p">>, <<"h", "e", "l">>,
     <<"h", "e", "l", "p", "x">>, <<"x">>}

ArgTokens == {<<>>, <<"x">>, <<"y", "z">>}

\* message bodies: [' '] ['!'] name {' ' arg} [trailing white space]
Bodies ==
    {lead \o bang \o name \o SpacedConcat(args) \o trail :
        lead \in {<<>>, <<" ">>},
        bang \in {<<>>, <<"!">>},
        name \in CommandNames,
        args \in SeqsUpTo(ArgTokens, MaxArgs),
        trail \in {<<>>, <<" ">>, <<"\n">>}}

\* PRIVMSG lines that vary the body, with and without tags
BodyLines ==
    {t \o <<":", "a", "b", "!", "u", " ">> \o PRIVMSG
       \o <<" ", "#", "c", " ", ":">> \o b :
        t \in {<<>>, <<"@", "k", "=", "v", " ">>}, b \in Bodies}

RawChars == {"@", ":", "!", " ", "P"}

\* short lines of any shape
RawLines == SeqsUpTo(RawChars, MaxRaw)

\* tags segments in which a key occurs more than once
DupTagStrings ==
    {<<"k", "=", "v", ";", "j", ";", "k", "=">>,
     <<"k", "=", "v", ";", "k", "=", "w", ";", "j", "=", "k">>,
     <<"k", ";", "k", "=", "v", ";", "k", "=", "w">>}

\* JOIN lines that vary the tags
TagLines ==
    {<<"@">> \o t \o <<" ", ":", "a", "!", "u", " ">> \o JOIN
       \o <<" ", "#", "c">> : t \in DupTagStrings}

Lines == PrefixLines \cup BodyLines \cup RawLines \cup TagLines

(***************************************************************************)
(* The specification: one call of EventContent::new on a line.             *)
(***************************************************************************)
Init ==
    /\ message \in Lines
    /\ i = 0
    /\ state = "Start"
    /\ user_name = <<>>
    /\ marker = 0
    /\ tags_map = <<>>
    /\ result = None
    /\ pc = "loop"
    /\ log = <<>>

Next ==
    \/ Start
    \/ Tags
    \/ UserName
    \/ AdditionalUserInfo
    \/ MessageToken
    \/ Channel
    \/ MessageBody
    \/ Exhausted

Spec == Init /\ [][Next]_vars

\* the lines whose characters are all read: a body is left at its first one
ScannedLines == PrefixLines \cup RawLines \cup TagLines

InitFair == Init /\ message \in ScannedLines

\* the call runs to its return: the function is sequential code
SpecFair == InitFair /\ [][Next]_vars /\ WF_vars(Next)

(***************************************************************************)
(* Several calls in sequence: the caller hands EventContent::new one line  *)
(* after the other, and every call starts from fresh locals.               *)
(***************************************************************************)
\* the largest number of calls in a sequence
MaxCalls == 3

\* a call that takes over the parsing state the call before it ended in
CallKeepingState(line) ==
    /\ pc = "done"
    /\ message' = line
    /\ i' = 0
    /\ user_name' = <<>>
    /\ marker' = 0
    /\ tags_map' = <<>>
    /\ result' = None
    /\ pc' = "loop"
    /\ UNCHANGED <<state, log>>

\* the entry of the next call, on `line`
Call(line) ==
    /\ pc = "done"
    /\ message' = line
    /\ i' = 0
    /\ state' = "Start"
    /\ user_name' = <<>>
    /\ marker' = 0
    /\ tags_map' = <<>>
    /\ result' = None
    /\ pc' = "loop"
    /\ UNCHANGED log

\* the lines of a sequence of calls
SeqLines ==
    {<<>>,
     <<"P", "I", "N", "G", " ", ":", "t">>,
     <<":", "a", "!", "u", " ">> \o JOIN \o <<" ", "#", "c">>,
     <<":", "b", "!", "u", " ">> \o PART \o <<" ", "#", "c">>,
     <<":", "a", " ", "b">>,
     <<":", "a", "!", "u", " ">> \o PRIVMSG \o <<" ", "#", "c", " ", ":", "x">>,
     <<":", "a", "!", "u", " ">> \o PRIVMSG \o <<" ", ":", "!">> \o slap
        \o <<" ", "x">>,
     <<"@", "k", "=", "v", " ", ":", "a", "!", "u", " ">> \o PRIVMSG
        \o <<" ", ":", "y">>}

InitSeq ==
    /\ message \in SeqLines
    /\ i = 0
    /\ state = "Start"
    /\ user_name = <<>>
    /\ marker = 0
    /\ tags_map = <<>>
    /\ result = None
    /\ pc = "loop"
    /\ log = <<>>

NextSeq ==
    \/ Next
    \/ (Len(log) < MaxCalls /\ \E line \in SeqLines : Call(line))

SpecSeq == InitSeq /\ [][NextSeq]_vars

(***************************************************************************)
(* A line without a trailing newline, then the same line with one.         *)
(***************************************************************************)
InitNewline ==
    Init /\ (message = <<>> \/ message[Len(message)] # "\n")

NextNewline ==
    \/ Next
    \/ (Len(log) = 1 /\ Call(message \o <<"\n">>))

SpecNewline == InitNewline /\ [][NextNewline]_vars

(***************************************************************************)
(* The anatomy of a line by the wire grammar                               *)
(*   [ '@' tags ' ' ] ':' author '!' userinfo ' ' verb ' '                 *)
(*   [ '#' channel ' ' ] ':' body                                          *)
(* given by the positions (from 1) of its delimiters; 0 stands for a       *)
(* delimiter the line lacks.                                               *)
(***************************************************************************)
\* the least position k >= from with s[k] = c, or 0
Find(s, c, from) ==
    IF \E k \in from..Len(s) : s[k] = c
    THEN CHOOSE k \in from..Len(s) :
             s[k] = c /\ \A j \in from..(k - 1) : s[j] # c
    ELSE 0

Tagged(m) == m # <<>> /\ m[1] = "@"

\* where the prefix begins: at 1, or right after the space ending the tags
PrefixAt(m) ==
    IF m # <<>> /\ m[1] = ":" THEN 1
    ELSE IF Tagged(m) /\ Find(m, " ", 1) > 0 THEN Find(m, " ", 1) + 1
    ELSE 0

HasPrefixMarker(m) ==
    PrefixAt(m) > 0 /\ PrefixAt(m) <= Len(m) /\ m[PrefixAt(m)] = ":"

BangAt(m) == IF PrefixAt(m) > 0 THEN Find(m, "!", PrefixAt(m)) ELSE 0

\* the span strictly between the prefix marker and the first following '!'
AuthorOf(m) == SubSeq(m, PrefixAt(m) + 1, BangAt(m) - 1)

\* the space ending the prefix
PrefixEnd(m) == IF BangAt(m) > 0 THEN Find(m, " ", BangAt(m) + 1) ELSE 0

\* the space ending the verb token
VerbEnd(m) == IF PrefixEnd(m) > 0 THEN Find(m, " ", PrefixEnd(m) + 1) ELSE 0

HasVerb(m) == VerbEnd(m) > 0

VerbOf(m) == SubSeq(m, PrefixEnd(m) + 1, VerbEnd(m) - 1)

\* the ':' that introduces the body
BodyMarker(m) == IF HasVerb(m) THEN Find(m, ":", VerbEnd(m) + 1) ELSE 0

BodyOf(m) == SubSeq(m, BodyMarker(m) + 1, Len(m))

\* s without its leading and trailing white space, by positions
Trimmed(s) ==
    LET inner == {k \in 1..Len(s) : s[k] \notin WhiteSpace}
    IN  IF inner = {}
        THEN <<>>
        ELSE SubSeq(s, CHOOSE k \in inner : \A j \in inner : k <= j,
                       CHOOSE k \in inner : \A j \in inner : k >= j)

WellFormedPrefix(m) ==
    /\ HasPrefixMarker(m)
    /\ BangAt(m) > 0
    /\ AuthorOf(m) # <<>>
    /\ \A k \in 1..Len(AuthorOf(m)) : AuthorOf(m)[k] # " "
    /\ PrefixEnd(m) > 0

\* nothing, or '#' channel ' ', between the verb and the body marker
WellFormedChannel(m) ==
    LET chan == SubSeq(m, VerbEnd(m) + 1, BodyMarker(m) - 1)
    IN  \/ chan = <<>>
        \/ /\ Len(chan) >= 3
           /\ chan[1] = "#"
           /\ chan[Len(chan)] = " "
           /\ \A k \in 2..(Len(chan) - 1) : chan[k] # " "

WellFormedPrivmsg(m) ==
    /\ WellFormedPrefix(m)
    /\ HasVerb(m)
    /\ VerbOf(m) = PRIVMSG
    /\ BodyMarker(m) > 0
    /\ WellFormedChannel(m)

KnownNames == {help, info, slap}

Done == pc = "done"

IsEvent == result.kind # "None"

(***************************************************************************)
(* The claims.                                                             *)
(***************************************************************************)
\* C1: a well-formed PRIVMSG line (with or without tags) whose body has at
\* least one character and does not start with '!' parses to the TextMessage
\* of the trimmed body and of the author between ':' and '!'.
C1_TextMessageOfBodyAndAuthor ==
    (/\ Done
     /\ WellFormedPrivmsg(message)
     /\ BodyOf(message) # <<>>
     /\ ~starts_with(BodyOf(message), "!"))
    => result = TextMessage(Trimmed(BodyOf(message)), AuthorOf(message))

\* C2: the author of every event is the span strictly between the prefix
\* marker ':' and the first '!' after it, with or without a tags segment.
C2_AuthorIsPrefixSpan ==
    (Done /\ IsEvent)
    => (HasPrefixMarker(message) /\ result.user_name = AuthorOf(message))

\* C3: every event carries a non-empty author.
C3_AuthorNonEmpty ==
    (Done /\ IsEvent) => result.user_name # <<>>

\* C4: no TextMessage has a text that starts with the trigger character '!'.
C4_NoTextMessageWithTrigger ==
    (Done /\ result.kind = "TextMessage") => ~starts_with(result.text, "!")

\* the CommandType a known name stands for
KnownType(name) ==
    CASE name = help -> "Help"
      [] name = info -> "Info"
      [] name = slap -> "Slap"
      [] OTHER -> "None"

\* the line reaches a body that starts with the trigger character
HasCommandBody(m) ==
    /\ HasVerb(m)
    /\ VerbOf(m) = PRIVMSG
    /\ BodyMarker(m) > 0
    /\ starts_with(BodyOf(m), "!")

\* the text after '!' up to the first space, or to the end of the trimmed body
CmdNameOf(m) ==
    LET b  == Trimmed(BodyOf(m))
        sp == Find(b, " ", 1)
    IN  SubSeq(b, 2, IF sp = 0 THEN Len(b) ELSE sp - 1)

\* C5: a well-formed PRIVMSG line (with or without tags) whose body is
\* '!name arg1 arg2 ...' with a known name parses to the Command of that
\* name, of exactly those arguments in order, and of the line's author.
C5_CommandOfNameArgsAuthor ==
    \A name \in KnownNames :
        \A args \in SeqsUpTo(ArgTokens \ {<<>>}, MaxArgs) :
            (/\ Done
             /\ WellFormedPrivmsg(message)
             /\ BodyOf(message) = <<"!">> \o name \o SpacedConcat(args))
            => result = Command(KnownType(name), args, AuthorOf(message))

\* C6: a PRIVMSG body that is '!' and a known name, followed by nothing but
\* white space, parses to a Command of that name with no options at all.
C6_EmptyRemainderNoOptions ==
    \A name \in KnownNames :
        (/\ Done
         /\ WellFormedPrivmsg(message)
         /\ Len(BodyOf(message)) >= 1 + Len(name)
         /\ SubSeq(BodyOf(message), 1, 1 + Len(name)) = <<"!">> \o name
         /\ \A k \in (2 + Len(name))..Len(BodyOf(message)) :
                BodyOf(message)[k] \in WhiteSpace)
        => /\ result.kind = "Command"
           /\ result.commmand_type = KnownType(name)
           /\ result.options = <<>>

\* C6 witness: '!help' followed by white space has been parsed to a Command
\* without options.
C6_Witness ==
    /\ Done
    /\ WellFormedPrivmsg(message)
    /\ BodyOf(message) \in {<<"!">> \o help \o <<" ">>,
                            <<"!">> \o help \o <<"\n">>}
    /\ result.kind = "Command"
    /\ result.options = <<>>

\* C7: a Command comes only from a body whose name is exactly help, info or
\* slap, and a body starting with '!' with any other name yields no event.
C7_OnlyKnownNames ==
    /\ (Done /\ result.kind = "Command")
       => /\ HasCommandBody(message)
          /\ CmdNameOf(message) \in KnownNames
          /\ result.commmand_type = KnownType(CmdNameOf(message))
    /\ (Done /\ HasCommandBody(message) /\ CmdNameOf(message) \notin KnownNames)
       => result = None

\* C7 witness: a body whose name differs from a known one only by case, or
\* only by a further letter, has been rejected with no event.
C7_Witness ==
    /\ Done
    /\ WellFormedPrivmsg(message)
    /\ HasCommandBody(message)
    /\ CmdNameOf(message) \in {<<"H", "e", "l", "p">>,
                               <<"h", "e", "l", "p", "x">>}
    /\ state = "MessageBody"
    /\ result = None

C9_OnlyThreeVerbs ==
    /\ (Done /\ IsEvent)
       => (HasVerb(message) /\ VerbOf(message) \in {PRIVMSG, JOIN, PART})
    /\ (Done /\ HasVerb(message) /\ VerbOf(message) \notin {PRIVMSG, JOIN, PART})
       => result = None

\* C9 witness: a line with a well-formed prefix and another verb token has
\* been rejected in the MessageToken arm.
C9_Witness ==
    /\ Done
    /\ WellFormedPrefix(message)
    /\ HasVerb(message)
    /\ VerbOf(message) \in {<<"P", "I", "N", "G">>, <<"j", "o", "i", "n">>}
    /\ state = "MessageToken"
    /\ i = VerbEnd(message)
    /\ result = None

\* C10: a line whose first character is neither '@' nor ':' (the empty line
\* too) yields no event, and no character after the first is read.
C10_RejectedAtFirstCharacter ==
    (Done /\ (message = <<>> \/ message[1] \notin {"@", ":"}))
    => (result = None /\ i <= 1 /\ state = "Start")

\* C10 witness: a longer line with another first character has been rejected
\* after one character.
C10_Witness ==
    /\ Done
    /\ Len(message) >= 4
    /\ message[1] \notin {"@", ":"}
    /\ i = 1
    /\ result = None

\* the call on log[n].line and the call on log[k].line returned the same
SameOutcome(n, k) == log[n].outcome = log[k].outcome

\* C11: a call on a line without a trailing newline and a call on the same
\* line with one return the same event, or both return none.
C11_NewlineIndependent ==
    \A n \in 1..Len(log) :
        \A k \in 1..Len(log) :
            log[k].line = log[n].line \o <<"\n">> => SameOutcome(n, k)

\* the text between the leading '@' and the first space
TagsOf(m) == SubSeq(m, 2, Find(m, " ", 1) - 1)

\* the Tags arm has parsed the tags segment of the line
TagsParsed == Tagged(message) /\ state \notin {"Start", "Tags"}

\* the ';'-separated segments of the tags of the line
SegmentsOf(m) == split(TagsOf(m), ";")

\* the text before the first '=' of a segment, or the whole segment
KeyOf(seg) ==
    SubSeq(seg, 1, IF Find(seg, "=", 1) = 0 THEN Len(seg)
                   ELSE Find(seg, "=", 1) - 1)

\* the whole text after the first '=' of a segment, or the empty string
ValueOf(seg) ==
    IF Find(seg, "=", 1) = 0
    THEN <<>>
    ELSE SubSeq(seg, Find(seg, "=", 1) + 1, Len(seg))

\* segment n is the last one of the line with its key
LastOfKey(segs, n) ==
    \A k \in (n + 1)..Len(segs) : KeyOf(segs[k]) # KeyOf(segs[n])

\* C12: the map of the tags holds, for each segment, the text before the first
\* '=' as key and the whole text after the first '=' as value (the empty
\* string when there is no '=' or nothing after it).
C12_SplitOnFirstEquals ==
    TagsParsed
    => \A n \in 1..Len(SegmentsOf(message)) :
           LET seg == SegmentsOf(message)[n]
           IN  /\ KeyOf(seg) \in DOMAIN tags_map
               /\ LastOfKey(SegmentsOf(message), n)
                  => tags_map[KeyOf(seg)] = ValueOf(seg)

\* C16: the map of the tags has one entry per distinct key, and a key that
\* occurs in several segments holds the value of its last occurrence.
C16_LastOccurrenceWins ==
    TagsParsed
    => /\ DOMAIN tags_map =
              {KeyOf(SegmentsOf(message)[n]) : n \in 1..Len(SegmentsOf(message))}
       /\ \A n \in 1..Len(SegmentsOf(message)) :
              LET seg == SegmentsOf(message)[n]
              IN  LastOfKey(SegmentsOf(message), n)
                  => tags_map[KeyOf(seg)] = parse_tags(seg)[KeyOf(seg)]

\* C16 witness: the tags k=v;k=w;j=k have been parsed to a map of two entries
\* in which k holds w.
C16_Witness ==
    /\ TagsParsed
    /\ TagsOf(message) =
           <<"k", "=", "v", ";", "k", "=", "w", ";", "j", "=", "k">>
    /\ Cardinality(DOMAIN tags_map) = 2
    /\ tags_map[<<"k">>] = <<"w">>
    /\ tags_map[<<"j">>] = <<"k">>

\* C13: in a sequence of calls, two calls on the same line return the same
\* event (or both none), whatever lines were parsed before and in between.
C13_SameLineSameOutcome ==
    \A n \in 1..Len(log) :
        \A k \in 1..Len(log) :
            log[k].line = log[n].line => SameOutcome(n, k)

\* C13 witness: a line was parsed to a TextMessage, then another line to
\* something else, then the first line again to the same TextMessage.
C13_Witness ==
    /\ Len(log) = 3
    /\ log[1].outcome.kind = "TextMessage"
    /\ log[2].line # log[1].line
    /\ log[2].outcome # log[1].outcome
    /\ log[3].line = log[1].line
    /\ log[3].outcome = log[1].outcome

\* the states in which no verb has been dispatched and no body reached
BeforeBody ==
    {"Start", "Tags", "UserName", "AdditionalUserInfo", "MessageToken",
     "Channel"}

\* C14: a space read in the UserName state ends the parse at once with no
\* event, for tagged and untagged lines alike.
C14_SpaceInUserNameFails ==
    [][(pc = "loop" /\ state = "UserName" /\ i < Len(message)
          /\ message[i + 1] = " ")
       => (pc' = "done" /\ result' = None /\ i' = i + 1)]_vars

\* C14 witness: a tagged line has been rejected on a space in its author,
\* with characters left unread.
C14_Witness ==
    /\ Done
    /\ Tagged(message)
    /\ state = "UserName"
    /\ i > PrefixAt(message)
    /\ i < Len(message)
    /\ message[i] = " "
    /\ result = None

\* C15: when the input is exhausted in the Start, Tags, UserName,
\* AdditionalUserInfo, MessageToken or Channel state, the call returns no
\* event.
C15_ExhaustedGivesNone ==
    [][(pc = "loop" /\ i >= Len(message) /\ state \in BeforeBody)
       => (pc' = "done" /\ result' = None)]_vars

\* C15 witness: a line that ends right after the verb JOIN, with no space to
\* dispatch it, has returned no event.
C15_Witness ==
    /\ Done
    /\ state = "MessageToken"
    /\ i = Len(message)
    /\ message[Len(message)] # " "
    /\ Slice(message, marker, Len(message)) = JOIN
    /\ result = None

\* the transitions of the traversal order
StateOrder ==
    {<<"Start", "Tags">>, <<"Start", "UserName">>, <<"Tags", "UserName">>,
     <<"UserName", "AdditionalUserInfo">>,
     <<"AdditionalUserInfo", "MessageToken">>,
     <<"MessageToken", "Channel">>, <<"Channel", "MessageBody">>}

\* the author span has been assigned on a '!' already read
AuthorAssigned ==
    \E k \in 1..i : message[k] = "!" /\ user_name = SubSeq(message, 2, k - 1)

\* C17: the parsing state changes only along Start -> (Tags ->) UserName ->
\* AdditionalUserInfo -> MessageToken -> Channel -> MessageBody, an event is
\* returned only in MessageToken (Join, Part) or MessageBody (TextMessage,
\* Command), and only with the author span assigned.
C17_StatesAdvanceInOrder ==
    /\ [][state' # state => <<state, state'>> \in StateOrder]_vars
    /\ [](IsEvent
          => /\ AuthorAssigned
             /\ result.kind \in {"Join", "Part"} => state = "MessageToken"
             /\ result.kind \in {"TextMessage", "Command"}
                => state = "MessageBody")

\* C17 witness: a tagged line has gone through every state and returned a
\* Command from MessageBody.
C17_Witness ==
    /\ Done
    /\ Tagged(message)
    /\ state = "MessageBody"
    /\ result.kind = "Command"
    /\ AuthorAssigned

\* C18: the call returns; until then every step reads exactly one character
\* and moves the cursor one forward, never past the end of the line, and
\* after the first return (an event or none) no further step is taken, so
\* the arms run at most as often as the line has characters.
C18_Terminates ==
    /\ <>Done
    /\ [](i <= Len(message))
    /\ [][/\ pc = "loop"
          /\ \/ i < Len(message) /\ i' = i + 1
             \/ i = Len(message) /\ i' = i /\ pc' = "done"]_vars

\* C18 witness: a line of several characters has been read to its last
\* character and the call has returned an event there.
C18_Witness ==
    /\ Done
    /\ Len(message) >= 10
    /\ i = Len(message)
    /\ IsEvent

\* C19: whenever an arm is about to take a span, the span is within the
\* line and its start is not after its end: message[1..i] in the Tags and
\* UserName arms, message[marker..i] in the MessageToken arm, message[i..] in
\* the MessageBody arm.
C19_SpansInBounds ==
    (pc = "loop" /\ i < Len(message))
    => /\ (state = "Tags" /\ message[i + 1] = " ")
          => (1 <= i /\ i <= Len(message))
       /\ (state = "UserName" /\ message[i + 1] = "!")
          => (1 <= i /\ i <= Len(message))
       /\ (state = "MessageToken" /\ message[i + 1] = " ")
          => (marker <= i /\ i <= Len(message))
       /\ state = "MessageBody" => i < Len(message)

\* C19 witness: the verb token was taken between two adjacent spaces, as the
\* empty span, and the call returned no event.
C19_Witness ==
    /\ Done
    /\ state = "MessageToken"
    /\ message[i] = " "
    /\ marker = i - 1
    /\ Slice(message, marker, i - 1) = <<>>
    /\ result = None

====
